---- MODULE Spec2Model ----
(***************************************************************************)
(* Model of the resilient fetch-and-cache pipeline of ci_education:        *)
(* pokemonCache (get/set with TTL), Server.fetchPokemon (bounded retry     *)
(* with backoff and metrics) and the /pokemon/:name handler that joins     *)
(* them.  Clock readings are integers; one unit is one TTL second.         *)
(* Backoff durations are in milliseconds.                                  *)
(***************************************************************************)
EXTENDS Integers, Sequences, FiniteSets, TLC

\* ---------------------------------------------------------------- bounds
MaxTime == 2
MaxTTL == 2
MaxBackoffAttempt == 10
TraceLen == 3

\* ------------------------------------------------------ program constants
maxAttempts == 3
BaseMs == 100
MaxMs == 1000
JitterMod == 30
StatusOK == 200
StatusNotFound == 404
StatusBadGateway == 502

\* ------------------------------------------------------------ input sets
Keys == {"pikachu", "eevee"}
Bytes == 0..255
\* upstream statuses a transport call can answer with
StatusCodes == {200, 204, 404, 429, 503}
\* response bodies the upstream can send with a 200
Bodies == {"pikachu", "eevee", "empty", "mistyped", "garbage"}
\* transport errors returned by http.Client.Do (always a *url.Error)
TransportErrors == {"timeout", "refused", "canceled", "deadline"}

\* ---------------------------------------------------------------- values
\* pokemonResponse, and its zero value pokemonResponse{}
pokemonResponse(n, h, w, b) ==
    [Name |-> n, Height |-> h, Weight |-> w, BaseExperience |-> b]
ZeroResponse == pokemonResponse("", 0, 0, 0)
Pikachu == pokemonResponse("pikachu", 4, 60, 112)
Eevee == pokemonResponse("eevee", 3, 65, 65)
Results == {Pikachu, Eevee}

\* a map slot: ok is the comma-ok of the map read
Absent == [ok |-> FALSE, value |-> ZeroResponse, expiresAt |-> 0]
cacheEntry(v, e) == [ok |-> TRUE, value |-> v, expiresAt |-> e]

\* faulty variant of After: the operands swapped
After_Swapped(t, u) == u > t

\* time.Time.After
After(t, u) == t > u

\* ------------------------------------------------------------ pokemonCache
newPokemonCache == [k \in Keys |-> Absent]

\* get(key) run by one caller at clock reading t on map d:
\* the value, the found flag and the map it leaves (lazy cleanup)
get(d, key, t) ==
    LET entry == d[key] IN
    IF ~entry.ok \/ After(t, entry.expiresAt)
    THEN [value |-> ZeroResponse, found |-> FALSE,
          data |-> IF entry.ok THEN [d EXCEPT ![key] = Absent] ELSE d]
    ELSE [value |-> entry.value, found |-> TRUE, data |-> d]

\* faulty variant of set: an entry that is already there is kept
set_KeepExisting(d, key, value, t, l) ==
    IF d[key].ok THEN d ELSE [d EXCEPT ![key] = cacheEntry(value, t + l)]

\* set(key, value) at clock reading t with the store's ttl
set(d, key, value, t, l) ==
    [d EXCEPT ![key] = cacheEntry(value, t + l)]

\* ----------------------------------------------------------------- backoff
RECURSIVE Pow2(_)
Pow2(n) == IF n <= 0 THEN 1 ELSE 2 * Pow2(n - 1)

\* faulty variant of Jitter: the random byte used without the modulo
Jitter_NoMod(b) == b

\* randByte() % 30, in milliseconds
Jitter(b) == b % JitterMod

\* d before the jitter: base * 2^(attempt-1) capped at max
backoffBase(a) ==
    LET d == BaseMs * Pow2(a - 1) IN IF d > MaxMs THEN MaxMs ELSE d

\* the duration handed to time.Sleep for attempt a and random byte b
backoffDelay(a, b) == backoffBase(a) - Jitter(b)

\* ------------------------------------------------------- transport, decode
NoErr == ""
Outcome(e, s, b) == [err |-> e, status |-> s, body |-> b]

\* what a transport error answers to net.Error's Timeout() and Temporary()
NetTimeout(e) == e \in {"timeout", "deadline"}
NetTemporary(e) == e \in {"timeout", "deadline"}

\* errors.As(err, &nerr) succeeds for every *url.Error
IsNetError(e) == e \in TransportErrors

isRetryable(e) ==
    IF IsNetError(e) THEN NetTimeout(e) \/ NetTemporary(e) ELSE TRUE

\* the error Do returns once the caller's context is done
CtxError(c) == IF c = "canceled" THEN "canceled" ELSE "deadline"
IsCtxError(e) == e \in {"canceled", "deadline"}

\* the JSON document behind each body
Document(b) ==
    CASE b = "pikachu" ->
           [object |-> TRUE, has |-> {"name", "height", "weight", "base_experience", "id"},
            mistyped |-> {}, name |-> "pikachu", height |-> 4, weight |-> 60,
            base_experience |-> 112]
      [] b = "eevee" ->
           [object |-> TRUE, has |-> {"name", "height", "weight", "base_experience"},
            mistyped |-> {}, name |-> "eevee", height |-> 3, weight |-> 65,
            base_experience |-> 65]
      [] b = "empty" ->
           [object |-> TRUE, has |-> {}, mistyped |-> {}, name |-> "", height |-> 0,
            weight |-> 0, base_experience |-> 0]
      [] b = "mistyped" ->
           [object |-> TRUE, has |-> {"name", "height"}, mistyped |-> {"height"},
            name |-> "pikachu", height |-> 0, weight |-> 0, base_experience |-> 0]
      [] OTHER ->
           [object |-> FALSE, has |-> {}, mistyped |-> {}, name |-> "", height |-> 0,
            weight |-> 0, base_experience |-> 0]

\* faulty variant of Decode: the decoder's error is dropped
Decode_IgnoreError(b) ==
    [ok |-> TRUE, err |-> "",
     data |-> pokemonResponse(Document(b).name, Document(b).height,
                              Document(b).weight, Document(b).base_experience)]

\* json.NewDecoder(resp.Body).Decode(&data): the error is the body's read
\* error when the read was cut short by the context, the decoder's otherwise
Decode(b) ==
    LET doc == Document(b) IN
    IF IsCtxError(b)
    THEN [ok |-> FALSE, err |-> b, data |-> ZeroResponse]
    ELSE IF ~doc.object \/ doc.mistyped # {}
    THEN [ok |-> FALSE, err |-> "json", data |-> ZeroResponse]
    ELSE [ok |-> TRUE, err |-> "",
          data |-> pokemonResponse(
              IF "name" \in doc.has THEN doc.name ELSE "",
              IF "height" \in doc.has THEN doc.height ELSE 0,
              IF "weight" \in doc.has THEN doc.weight ELSE 0,
              IF "base_experience" \in doc.has THEN doc.base_experience ELSE 0)]

\* faulty variant of Itoa: every status is counted under "error"
Itoa_Error(s) == "error"

\* strconv.Itoa on the statuses the upstream answers with
Itoa(s) ==
    CASE s = 200 -> "200" [] s = 204 -> "204" [] s = 404 -> "404"
      [] s = 429 -> "429" [] s = 503 -> "503" [] OTHER -> "?"

Labels == {"error", "parse_error", "200", "204", "404", "429", "503"}

\* --------------------------------------------------------- fetch decisions
NilErr == [kind |-> "nil", code |-> 0, cause |-> ""]
Err(k, c, w) == [kind |-> k, code |-> c, cause |-> w]
Return(p, s, e) == [data |-> p, status |-> s, err |-> e]
NoReturn == Return(ZeroResponse, 0, NilErr)

\* faulty variant of retryTransport: the attempt bound is not tested
retryTransport_NoBound(e, a) == isRetryable(e)

\* line 181: retry a failed transport call
retryTransport(e, a) == isRetryable(e) /\ a < maxAttempts

\* faulty variant of retryStatus: every error status is retried
retryStatus_AnyError(s, a) == s >= 400 /\ a < maxAttempts

\* line 201: retry a server error
retryStatus(s, a) == s >= 500 /\ a < maxAttempts

\* faulty variant of retryLabels: every failed attempt is counted
retryLabels_CountRetry == {"error"}

\* counter labels incremented by an attempt that is followed by a retry
retryLabels == {}

\* faulty variant of statusError: the upstream status is passed through
statusError_PassThrough(s) ==
    Return(ZeroResponse, s, Err("upstream returned status", s, ""))

\* lines 209-212: the return for a status that is not retried
statusError(s) ==
    IF s = StatusNotFound
    THEN Return(ZeroResponse, StatusNotFound, Err("pokemon not found", 0, ""))
    ELSE Return(ZeroResponse, StatusBadGateway, Err("upstream returned status", s, ""))

\* one pass through the loop body for attempt a and transport outcome o:
\* retry (with the lastErr to keep) or return (with the counter label)
fetchAttempt(a, o) ==
    IF o.err # NoErr
    THEN IF retryTransport(o.err, a)
         THEN [retry |-> TRUE, labels |-> retryLabels, ret |-> NoReturn,
               lastErr |-> Err("transport", 0, o.err)]
         ELSE [retry |-> FALSE, labels |-> {"error"},
               ret |-> Return(ZeroResponse, StatusBadGateway,
                              Err("failed to call upstream", 0, o.err)),
               lastErr |-> NilErr]
    ELSE IF o.status = StatusOK
    THEN IF ~Decode(o.body).ok
         THEN [retry |-> FALSE, labels |-> {"parse_error"},
               ret |-> Return(ZeroResponse, StatusBadGateway,
                              Err("failed to parse response", 0, Decode(o.body).err)),
               lastErr |-> NilErr]
         ELSE [retry |-> FALSE, labels |-> {"200"},
               ret |-> Return(Decode(o.body).data, StatusOK, NilErr),
               lastErr |-> NilErr]
    ELSE IF retryStatus(o.status, a)
    THEN [retry |-> TRUE, labels |-> retryLabels, ret |-> NoReturn,
          lastErr |-> Err("upstream status", o.status, "")]
    ELSE [retry |-> FALSE, labels |-> {Itoa(o.status)},
          ret |-> statusError(o.status),
          lastErr |-> NilErr]

\* lines 214-215: the return after the loop
exhausted(le) ==
    Return(ZeroResponse, StatusBadGateway,
           Err("upstream retries exhausted", le.code, le.cause))

\* ------------------------------------------------------------------ state
VARIABLES
    now,          \* the clock: what time.Now() reads
    ttl,          \* pokemonCache.ttl
    data,         \* pokemonCache.data
    pc,           \* where the request being handled is
    name,         \* c.Param("name")
    attempt,      \* fetchPokemon's loop variable
    lastErr,      \* fetchPokemon's lastErr
    ctx,          \* the request context: "none", "canceled" or "deadline"
    ret,          \* what fetchPokemon returned
    resp,         \* what the handler wrote
    outcomes,     \* what each transport call of this fetch returned
    calls,        \* transport calls issued by this fetch
    sleeps,       \* backoff sleeps started by this fetch
    extCalls,     \* increments of extCallsTotal made by this fetch, per status label
    durObs,       \* observations of extCallDurationSec made by this fetch
    cancelledAt,  \* where the request was when its context was cancelled
    readAt,       \* the clock reading of the handler's cache get
    written,      \* per key, the last value the handler stored and when
    prior,        \* written[name] as it was when this lookup read the cache
    before,       \* pokemonCache.data as it was when this lookup arrived
    trace,        \* the last TraceLen direct calls of the cache
    bo,           \* the last backoff delay computed
    tpc,          \* per goroutine: where its request is
    tkey,         \* per goroutine: c.Param("name")
    tentry,       \* per goroutine: get's local 'entry, ok'
    tattempt,     \* per goroutine: fetchPokemon's loop variable
    tval,         \* per goroutine: the pokemonResponse fetchPokemon returned
    tres,         \* per goroutine: what get returned, and the clock reading of its test
    tclean,       \* per goroutine: a set of its key had completed when its get began
                  \* and none has inserted since
    readers,      \* pokemonCache.mu: the goroutines holding the read lock
    writer,       \* pokemonCache.mu: the goroutine holding the write lock
    lastSet       \* per key, the entry the last completed insert of set wrote

cacheVars == <<now, ttl, data>>
reqVars == <<pc, name, attempt, lastErr, ctx, ret, resp>>
obsVars == <<outcomes, calls, sleeps, extCalls, durObs, cancelledAt, readAt, written, prior,
            before>>
concVars == <<tpc, tkey, tentry, tattempt, tval, tres, tclean, readers, writer, lastSet>>
vars == <<now, ttl, data, pc, name, attempt, lastErr, ctx, ret, resp, outcomes, calls,
          sleeps, extCalls, durObs, cancelledAt, readAt, written, prior, before,
          trace, bo, tpc, tkey, tentry, tattempt, tval, tres, tclean, readers, writer,
          lastSet>>

\* the goroutines serving requests at the same time
Threads == {"g1", "g2"}
NoThread == "none"
NoGet == [found |-> FALSE, value |-> ZeroResponse, at |-> 0]

NoResp == [code |-> 0, error |-> "", message |-> NilErr, body |-> ZeroResponse]
NotCancelled == [pc |-> "", calls |-> 0]
NotWritten == [ok |-> FALSE, value |-> ZeroResponse, at |-> 0]
NoBackoff == [attempt |-> 0, byte |-> 0, delay |-> 0]
NoCounts == [l \in Labels |-> 0]

Inc(c, ls) == [l \in Labels |-> IF l \in ls THEN c[l] + 1 ELSE c[l]]

Last(s) == s[Len(s)]

\* the last n elements of s
LastN(s, n) == IF Len(s) <= n THEN s ELSE SubSeq(s, Len(s) - n + 1, Len(s))

Init ==
    /\ now = 0
    /\ ttl \in 0..MaxTTL
    /\ data = newPokemonCache
    /\ pc = "idle"
    /\ name = ""
    /\ attempt = 0
    /\ lastErr = NilErr
    /\ ctx = "none"
    /\ ret = NoReturn
    /\ resp = NoResp
    /\ outcomes = <<>>
    /\ calls = 0
    /\ sleeps = 0
    /\ extCalls = NoCounts
    /\ durObs = 0
    /\ cancelledAt = NotCancelled
    /\ readAt = 0
    /\ written = [k \in Keys |-> NotWritten]
    /\ prior = NotWritten
    /\ before = newPokemonCache
    /\ trace = <<>>
    /\ bo = NoBackoff
    /\ tpc = [t \in Threads |-> "idle"]
    /\ tkey = [t \in Threads |-> ""]
    /\ tentry = [t \in Threads |-> Absent]
    /\ tattempt = [t \in Threads |-> 0]
    /\ tval = [t \in Threads |-> ZeroResponse]
    /\ tres = [t \in Threads |-> NoGet]
    /\ tclean = [t \in Threads |-> FALSE]
    /\ readers = {}
    /\ writer = NoThread
    /\ lastSet = [k \in Keys |-> Absent]

\* ------------------------------------------------------------------ clock
Tick ==
    /\ now < MaxTime
    /\ now' = now + 1
    /\ UNCHANGED <<ttl, data, reqVars, obsVars, trace, bo, concVars>>

\* ------------------------------------------------- the /pokemon/:name handler
\* a request for /pokemon/k arrives
StartLookup(k) ==
    /\ pc \in {"idle", "done"}
    /\ pc' = "lookup"
    /\ name' = k
    /\ attempt' = 0
    /\ lastErr' = NilErr
    /\ ctx' = "none"
    /\ ret' = NoReturn
    /\ resp' = NoResp
    /\ outcomes' = <<>>
    /\ calls' = 0
    /\ sleeps' = 0
    /\ extCalls' = NoCounts
    /\ durObs' = 0
    /\ cancelledAt' = NotCancelled
    /\ readAt' = 0
    /\ prior' = NotWritten
    /\ before' = data
    /\ UNCHANGED <<cacheVars, written, trace, bo, concVars>>

\* lines 139-145: cache first, then enter fetchPokemon
hitResponse(v) == [code |-> StatusOK, error |-> "", message |-> NilErr, body |-> v]

CacheLookup ==
    /\ pc = "lookup"
    /\ LET r == get(data, name, now) IN
        /\ data' = r.data
        /\ readAt' = now
        /\ prior' = written[name]
        /\ IF r.found
           THEN /\ resp' = hitResponse(r.value)
                /\ pc' = "done"
                /\ attempt' = attempt
           ELSE /\ resp' = resp
                /\ pc' = "attempt"
                /\ attempt' = 1
    /\ UNCHANGED <<now, ttl, name, lastErr, ctx, ret, outcomes, calls, sleeps,
                   extCalls, durObs, cancelledAt, written, before,
                   trace, bo, concVars>>

\* lines 176-178 and 214-215: the loop condition, then either the transport
\* call is issued or the loop is left
LoopHead ==
    /\ pc = "attempt"
    /\ IF attempt <= maxAttempts
       THEN /\ pc' = "inflight"
            /\ calls' = calls + 1
            /\ UNCHANGED <<ret, extCalls, durObs>>
       ELSE /\ pc' = "returned"
            /\ extCalls' = Inc(extCalls, {"error"})
            /\ ret' = exhausted(lastErr)
            /\ durObs' = durObs + 1
            /\ calls' = calls
    /\ UNCHANGED <<cacheVars, name, attempt, lastErr, ctx, resp, outcomes, sleeps,
                   cancelledAt, readAt, written, prior, before,
                   trace, bo, concVars>>

\* what Do can return: the context's error once the context is done;
\* otherwise an error, or a status with the body still to be read
TransportOutcomes(c) ==
    IF c # "none"
    THEN {Outcome(CtxError(c), 0, "")}
    ELSE {Outcome(e, 0, "") : e \in {"timeout", "refused"}}
         \cup {Outcome(NoErr, s, "") : s \in StatusCodes}

\* what reading the body of a 200 can give: a body the upstream sent, or,
\* once the context is done, the context's error in place of the body
\* (bytes that had already arrived are still read)
BodyReads(c) ==
    Bodies \cup (IF c # "none" THEN {CtxError(c)} ELSE {})

\* lines 178-191 and 201-212: Do returns o. On a 200 the body is read next
\* (line 193). Otherwise the attempt either goes to sleep in backoff
\* (time.Sleep of backoffDelay(attempt, randByte()) ms, a positive duration
\* of at most one clock unit) or fetchPokemon returns (the deferred Observe
\* runs then)
DoReturn(o) ==
    /\ pc = "inflight"
    /\ o \in TransportOutcomes(ctx)
    /\ outcomes' = Append(outcomes, o)
    /\ IF o.err = NoErr /\ o.status = StatusOK
       THEN /\ pc' = "decode"
            /\ UNCHANGED <<extCalls, sleeps, ret, durObs>>
       ELSE LET s == fetchAttempt(attempt, o) IN
            /\ extCalls' = Inc(extCalls, s.labels)
            /\ IF s.retry
               THEN /\ pc' = "sleep"
                    /\ sleeps' = sleeps + 1
                    /\ UNCHANGED <<ret, durObs>>
               ELSE /\ pc' = "returned"
                    /\ ret' = s.ret
                    /\ durObs' = durObs + 1
                    /\ UNCHANGED sleeps
    /\ UNCHANGED <<cacheVars, name, attempt, lastErr, ctx, resp, calls, cancelledAt,
                   readAt, written, prior, before,
                   trace, bo, concVars>>

\* lines 192-198: Decode has read the body of the 200 as b from the network,
\* under the request's context; fetchPokemon returns the Result or the parse
\* error (the deferred Observe runs then)
DecodeBody(b) ==
    /\ pc = "decode"
    /\ b \in BodyReads(ctx)
    /\ LET o == Outcome(NoErr, StatusOK, b)
           s == fetchAttempt(attempt, o)
       IN /\ outcomes' = [outcomes EXCEPT ![Len(outcomes)] = o]
          /\ extCalls' = Inc(extCalls, s.labels)
          /\ ret' = s.ret
    /\ pc' = "returned"
    /\ durObs' = durObs + 1
    /\ UNCHANGED <<cacheVars, name, attempt, lastErr, ctx, resp, calls, sleeps,
                   cancelledAt, readAt, written, prior, before,
                   trace, bo, concVars>>

\* lines 182-184 and 203-205: time.Sleep is over; lastErr, continue
Wake ==
    /\ pc = "sleep"
    /\ lastErr' = fetchAttempt(attempt, Last(outcomes)).lastErr
    /\ attempt' = attempt + 1
    /\ pc' = "attempt"
    /\ UNCHANGED <<cacheVars, name, ctx, ret, resp, obsVars, trace, bo, concVars>>

\* lines 146-156: the handler maps fetchPokemon's result to the response and
\* stores a success
errorResponse(r) ==
    IF r.status = StatusNotFound
    THEN [code |-> r.status, error |-> "not_found",
          message |-> Err("pokemon not found", 0, ""), body |-> ZeroResponse]
    ELSE [code |-> r.status, error |-> "upstream_error", message |-> r.err,
          body |-> ZeroResponse]

\* faulty variant of Respond: the handler stores whatever fetchPokemon returned
Respond_StoreAlways ==
    /\ pc = "returned"
    /\ pc' = "done"
    /\ data' = set(data, name, ret.data, now, ttl)
    /\ written' = [written EXCEPT ![name] =
                      [ok |-> TRUE, value |-> ret.data, at |-> now]]
    /\ resp' = IF ret.err # NilErr THEN errorResponse(ret) ELSE hitResponse(ret.data)
    /\ UNCHANGED <<now, ttl, name, attempt, lastErr, ctx, ret, outcomes, calls, sleeps,
                   extCalls, durObs, cancelledAt, readAt, prior, before,
                   trace, bo, concVars>>

Respond ==
    /\ pc = "returned"
    /\ pc' = "done"
    /\ IF ret.err # NilErr
       THEN /\ resp' = errorResponse(ret)
            /\ UNCHANGED <<data, written>>
       ELSE /\ data' = set(data, name, ret.data, now, ttl)
            /\ written' = [written EXCEPT ![name] =
                              [ok |-> TRUE, value |-> ret.data, at |-> now]]
            /\ resp' = hitResponse(ret.data)
    /\ UNCHANGED <<now, ttl, name, attempt, lastErr, ctx, ret, outcomes, calls, sleeps,
                   extCalls, durObs, cancelledAt, readAt, prior, before,
                   trace, bo, concVars>>

\* the caller goes away or its deadline passes while fetchPokemon runs
CancelCtx(c) ==
    /\ pc \in {"attempt", "inflight", "decode", "sleep"}
    /\ ctx = "none"
    /\ ctx' = c
    /\ cancelledAt' = [pc |-> pc, calls |-> calls]
    /\ UNCHANGED <<cacheVars, pc, name, attempt, lastErr, ret, resp, outcomes, calls,
                   sleeps, extCalls, durObs, readAt, written, prior, before,
                   trace, bo, concVars>>

Next ==
    \/ Tick
    \/ \E k \in Keys : StartLookup(k)
    \/ CacheLookup
    \/ LoopHead
    \/ \E o \in TransportOutcomes(ctx) : DoReturn(o)
    \/ \E b \in BodyReads(ctx) : DecodeBody(b)
    \/ Wake
    \/ Respond
    \/ \E c \in {"canceled", "deadline"} : CancelCtx(c)

Spec == Init /\ [][Next]_vars

\* ------------------------------------------------ the cache called directly
Call(op, k, v, t, f) == [op |-> op, key |-> k, value |-> v, at |-> t, found |-> f]

CallSet(k, v) ==
    /\ data' = set(data, k, v, now, ttl)
    /\ trace' = LastN(Append(trace, Call("set", k, v, now, FALSE)), TraceLen)
    /\ UNCHANGED <<now, ttl, reqVars, obsVars, bo, concVars>>

CallGet(k) ==
    /\ LET r == get(data, k, now) IN
        /\ data' = r.data
        /\ trace' = LastN(Append(trace, Call("get", k, r.value, now, r.found)), TraceLen)
    /\ UNCHANGED <<now, ttl, reqVars, obsVars, bo, concVars>>

NextCache ==
    \/ Tick
    \/ \E k \in Keys, v \in Results : CallSet(k, v)
    \/ \E k \in Keys : CallGet(k)

SpecCache == Init /\ [][NextCache]_vars

\* ------------------------------------------------------ backoff on its own
Backoff(a, b) ==
    /\ bo = NoBackoff
    /\ bo' = [attempt |-> a, byte |-> b, delay |-> backoffDelay(a, b)]
    /\ UNCHANGED <<cacheVars, reqVars, obsVars, trace, concVars>>

NextBackoff == \E a \in 1..MaxBackoffAttempt, b \in Bytes : Backoff(a, b)

SpecBackoff == Init /\ [][NextBackoff]_vars

\* ------------------------------------------- requests served concurrently
\* Each request runs the handler on its own goroutine; the steps are the
\* statements of get, set and the handler that touch pokemonCache.mu or
\* pokemonCache.data, and the two places where fetchPokemon blocks.
seqVars == <<reqVars, obsVars, trace, bo>>

\* the key the concurrent requests contend for
ConcKeys == {"pikachu"}

\* what the transport answers to the requests served concurrently
ConcOutcomes ==
    {Outcome("timeout", 0, ""), Outcome(NoErr, StatusNotFound, ""),
     Outcome(NoErr, StatusOK, "pikachu"), Outcome(NoErr, StatusOK, "eevee")}

\* faulty variant of evictLockMode: the delete is done under the read lock
evictLockMode_Read == "r"

\* line 63: the lock get takes around its delete
evictLockMode == "w"

\* line 132: a request for /pokemon/k arrives
handler_start(t, k) ==
    /\ tpc[t] = "idle"
    /\ tpc' = [tpc EXCEPT ![t] = "rlock"]
    /\ tkey' = [tkey EXCEPT ![t] = k]
    /\ tclean' = [tclean EXCEPT ![t] = lastSet[k].ok]
    /\ UNCHANGED <<cacheVars, seqVars, tentry, tattempt, tval, tres, readers, writer,
                   lastSet>>

\* line 57: c.mu.RLock()
get_RLock(t) ==
    /\ tpc[t] = "rlock"
    /\ writer = NoThread
    /\ readers' = readers \cup {t}
    /\ tpc' = [tpc EXCEPT ![t] = "read"]
    /\ UNCHANGED <<cacheVars, seqVars, tkey, tentry, tattempt, tval, tres, tclean, writer,
                   lastSet>>

\* line 58: entry, ok := c.data[key]
get_read(t) ==
    /\ tpc[t] = "read"
    /\ tentry' = [tentry EXCEPT ![t] = data[tkey[t]]]
    /\ tpc' = [tpc EXCEPT ![t] = "runlock"]
    /\ UNCHANGED <<cacheVars, seqVars, tkey, tattempt, tval, tres, tclean, readers, writer,
                   lastSet>>

\* faulty variant of get_RUnlock: the read lock is not released
get_RUnlock_Leak(t) ==
    /\ tpc[t] = "runlock"
    /\ tpc' = [tpc EXCEPT ![t] = "check"]
    /\ UNCHANGED <<cacheVars, seqVars, tkey, tentry, tattempt, tval, tres, tclean, readers,
                   writer, lastSet>>

\* line 59: c.mu.RUnlock()
get_RUnlock(t) ==
    /\ tpc[t] = "runlock"
    /\ readers' = readers \ {t}
    /\ tpc' = [tpc EXCEPT ![t] = "check"]
    /\ UNCHANGED <<cacheVars, seqVars, tkey, tentry, tattempt, tval, tres, tclean, writer,
                   lastSet>>

\* lines 60-61 and 67-69: the test of the entry read, made outside any lock
get_expired(t) ==
    /\ tpc[t] = "check"
    /\ LET entry == tentry[t] IN
       IF ~entry.ok \/ After(now, entry.expiresAt)
       THEN /\ tres' = [tres EXCEPT ![t] = [found |-> FALSE, value |-> ZeroResponse,
                                            at |-> now]]
            /\ IF entry.ok
               THEN /\ tpc' = [tpc EXCEPT ![t] = "evict_lock"]
                    /\ tentry' = tentry
               ELSE /\ tpc' = [tpc EXCEPT ![t] = "got"]
                    /\ tentry' = [tentry EXCEPT ![t] = Absent]
       ELSE /\ tres' = [tres EXCEPT ![t] = [found |-> TRUE, value |-> entry.value,
                                            at |-> now]]
            /\ tpc' = [tpc EXCEPT ![t] = "got"]
            /\ tentry' = [tentry EXCEPT ![t] = Absent]
    /\ UNCHANGED <<cacheVars, seqVars, tkey, tattempt, tval, tclean, readers, writer,
                   lastSet>>

\* line 63: c.mu.Lock()
get_Lock(t) ==
    /\ tpc[t] = "evict_lock"
    /\ writer = NoThread
    /\ IF evictLockMode = "w"
       THEN /\ readers = {}
            /\ writer' = t
            /\ readers' = readers
       ELSE /\ readers' = readers \cup {t}
            /\ writer' = writer
    /\ tpc' = [tpc EXCEPT ![t] = "delete"]
    /\ UNCHANGED <<cacheVars, seqVars, tkey, tentry, tattempt, tval, tres, tclean, lastSet>>

\* line 64: delete(c.data, key)
get_delete(t) ==
    /\ tpc[t] = "delete"
    /\ data' = [data EXCEPT ![tkey[t]] = Absent]
    /\ tentry' = [tentry EXCEPT ![t] = Absent]
    /\ tpc' = [tpc EXCEPT ![t] = "evict_unlock"]
    /\ UNCHANGED <<now, ttl, seqVars, tkey, tattempt, tval, tres, tclean, readers, writer,
                   lastSet>>

\* lines 65-67: c.mu.Unlock(), and get returns not found
get_Unlock(t) ==
    /\ tpc[t] = "evict_unlock"
    /\ writer' = IF writer = t THEN NoThread ELSE writer
    /\ readers' = readers \ {t}
    /\ tpc' = [tpc EXCEPT ![t] = "got"]
    /\ UNCHANGED <<cacheVars, seqVars, tkey, tentry, tattempt, tval, tres, tclean, lastSet>>

\* lines 139-145: a hit is answered, a miss enters fetchPokemon
handler_get(t) ==
    /\ tpc[t] = "got"
    /\ IF tres[t].found
       THEN /\ tpc' = [tpc EXCEPT ![t] = "idle"]
            /\ tkey' = [tkey EXCEPT ![t] = ""]
            /\ tattempt' = tattempt
       ELSE /\ tpc' = [tpc EXCEPT ![t] = "inflight"]
            /\ tkey' = tkey
            /\ tattempt' = [tattempt EXCEPT ![t] = 1]
    /\ tres' = [tres EXCEPT ![t] = NoGet]
    /\ tclean' = [tclean EXCEPT ![t] = FALSE]
    /\ UNCHANGED <<cacheVars, seqVars, tentry, tval, readers, writer, lastSet>>

\* lines 178-212 and 146-154: the transport call returns o, body read
\* included (no context is cancelled here, and nothing shared is touched
\* between Do's return and the end of Decode); the attempt is retried, or
\* fetchPokemon returns and the handler answers an error or goes on to store
\* the success
fetch_Do(t, o) ==
    /\ tpc[t] = "inflight"
    /\ LET s == fetchAttempt(tattempt[t], o) IN
       IF s.retry
       THEN /\ tpc' = [tpc EXCEPT ![t] = "sleep"]
            /\ UNCHANGED <<tkey, tattempt, tval>>
       ELSE /\ tattempt' = [tattempt EXCEPT ![t] = 0]
            /\ IF s.ret.err # NilErr
               THEN /\ tpc' = [tpc EXCEPT ![t] = "idle"]
                    /\ tkey' = [tkey EXCEPT ![t] = ""]
                    /\ tval' = tval
               ELSE /\ tpc' = [tpc EXCEPT ![t] = "set_lock"]
                    /\ tkey' = tkey
                    /\ tval' = [tval EXCEPT ![t] = s.ret.data]
    /\ UNCHANGED <<cacheVars, seqVars, tentry, tres, tclean, readers, writer, lastSet>>

\* lines 182-184 and 203-205: backoff's sleep ends, the next attempt begins
fetch_backoff(t) ==
    /\ tpc[t] = "sleep"
    /\ tpc' = [tpc EXCEPT ![t] = "inflight"]
    /\ tattempt' = [tattempt EXCEPT ![t] = tattempt[t] + 1]
    /\ UNCHANGED <<cacheVars, seqVars, tkey, tentry, tval, tres, tclean, readers, writer,
                   lastSet>>

\* line 73: c.mu.Lock()
set_Lock(t) ==
    /\ tpc[t] = "set_lock"
    /\ writer = NoThread
    /\ readers = {}
    /\ writer' = t
    /\ tpc' = [tpc EXCEPT ![t] = "insert"]
    /\ UNCHANGED <<cacheVars, seqVars, tkey, tentry, tattempt, tval, tres, tclean, readers,
                   lastSet>>

\* line 74: c.data[key] = cacheEntry{value, time.Now().Add(c.ttl)}
set_insert(t) ==
    /\ tpc[t] = "insert"
    /\ data' = set(data, tkey[t], tval[t], now, ttl)
    /\ lastSet' = [lastSet EXCEPT ![tkey[t]] = cacheEntry(tval[t], now + ttl)]
    /\ tclean' = [u \in Threads |-> tclean[u] /\ tkey[u] # tkey[t]]
    /\ tval' = [tval EXCEPT ![t] = ZeroResponse]
    /\ tpc' = [tpc EXCEPT ![t] = "set_unlock"]
    /\ UNCHANGED <<now, ttl, seqVars, tkey, tentry, tattempt, tres, readers, writer>>

\* lines 75 and 156: c.mu.Unlock(), and the handler answers 200
set_Unlock(t) ==
    /\ tpc[t] = "set_unlock"
    /\ writer' = NoThread
    /\ tpc' = [tpc EXCEPT ![t] = "idle"]
    /\ tkey' = [tkey EXCEPT ![t] = ""]
    /\ UNCHANGED <<cacheVars, seqVars, tentry, tattempt, tval, tres, tclean, readers,
                   lastSet>>

NextConc ==
    \/ Tick
    \/ \E t \in Threads, k \in ConcKeys : handler_start(t, k)
    \/ \E t \in Threads : get_RLock(t)
    \/ \E t \in Threads : get_read(t)
    \/ \E t \in Threads : get_RUnlock(t)
    \/ \E t \in Threads : get_expired(t)
    \/ \E t \in Threads : get_Lock(t)
    \/ \E t \in Threads : get_delete(t)
    \/ \E t \in Threads : get_Unlock(t)
    \/ \E t \in Threads : handler_get(t)
    \/ \E t \in Threads, o \in ConcOutcomes : fetch_Do(t, o)
    \/ \E t \in Threads : fetch_backoff(t)
    \/ \E t \in Threads : set_Lock(t)
    \/ \E t \in Threads : set_insert(t)
    \/ \E t \in Threads : set_Unlock(t)

SpecConc == Init /\ [][NextConc]_vars

\* ================================================================= claims
Max(S) == CHOOSE x \in S : \A y \in S : y <= x

\* the index in trace of the most recent set(k, ..) before its last call, or 0
LastSetBefore(k) ==
    LET S == {i \in 1..(Len(trace) - 1) : trace[i].op = "set" /\ trace[i].key = k}
    IN IF S = {} THEN 0 ELSE Max(S)

\* fetchPokemon has returned
Returned == pc \in {"returned", "done"}

\* failure counts of this fetch: every label but "200"
RECURSIVE SumOver(_, _)
SumOver(c, ls) ==
    IF ls = {} THEN 0 ELSE LET l == CHOOSE x \in ls : TRUE IN c[l] + SumOver(c, ls \ {l})
Failures == SumOver(extCalls, Labels \ {"200"})

\* the Result a body is the JSON encoding of
Encodes(b) ==
    CASE b = "pikachu" -> Pikachu [] b = "eevee" -> Eevee [] OTHER -> ZeroResponse

\* C1 (cache freshness, as claimed): with TTL t > 0, a get(k) whose most
\* recent set(k, v) ran at T returns (v, true) at every reading < T + t and
\* found=false at every reading >= T + t, T + t itself included.
C1_CacheFreshness ==
    (ttl > 0 /\ trace # <<>> /\ Last(trace).op = "get") =>
        LET g == Last(trace)
            i == LastSetBefore(g.key)
        IN i > 0 =>
            IF g.at < trace[i].at + ttl
            THEN g.found /\ g.value = trace[i].value
            ELSE ~g.found

\* C2 (zero TTL disables caching, as claimed): with TTL = 0 a get(k) right
\* after set(k, v) returns found=false at every clock reading, the reading
\* of the set included.
C2_ZeroTTLDisablesCaching ==
    (ttl = 0 /\ Len(trace) >= 2) =>
        LET g == trace[Len(trace)]
            w == trace[Len(trace) - 1]
        IN (g.op = "get" /\ w.op = "set" /\ w.key = g.key) => ~g.found

\* the trace ends with set(k, v1); set(k, v2); get(k)
SetSetGet ==
    /\ Len(trace) >= 3
    /\ trace[Len(trace)].op = "get"
    /\ trace[Len(trace) - 1].op = "set"
    /\ trace[Len(trace) - 2].op = "set"
    /\ trace[Len(trace) - 1].key = trace[Len(trace)].key
    /\ trace[Len(trace) - 2].key = trace[Len(trace)].key

\* C3 (idempotent overwrite, as claimed): set(k, v1); set(k, v2); get(k)
\* returns v2 whatever the time between the calls.
C3_OverwriteAnyTiming ==
    SetSetGet => (trace[Len(trace)].found
                  /\ trace[Len(trace)].value = trace[Len(trace) - 1].value)

\* C3 (amended): set(k, v1); set(k, v2); get(k) returns (v2, true) when the
\* get's clock reading is not after the second set's reading plus the TTL,
\* and found=false with the zero value otherwise; it never returns an
\* overwritten v1 that differs from v2.
C3_OverwriteUnlessExpired ==
    SetSetGet =>
        LET g == trace[Len(trace)]
            w2 == trace[Len(trace) - 1]
            w1 == trace[Len(trace) - 2]
        IN /\ IF g.at <= w2.at + ttl
              THEN g.found /\ g.value = w2.value
              ELSE ~g.found /\ g.value = ZeroResponse
           /\ ~(g.found /\ w1.value # w2.value /\ g.value = w1.value)

C3_Witness ==
    /\ SetSetGet
    /\ trace[Len(trace)].found
    /\ trace[Len(trace) - 2].value = Pikachu
    /\ trace[Len(trace) - 1].value = Eevee
    /\ trace[Len(trace)].at > trace[Len(trace) - 1].at
    /\ trace[Len(trace) - 1].at > trace[Len(trace) - 2].at

\* every transport call of this fetch answered 503
AllServiceUnavailable ==
    /\ outcomes # <<>>
    /\ \A i \in 1..Len(outcomes) : outcomes[i].err = NoErr /\ outcomes[i].status = 503

\* C4 (retry bound, as claimed): when every transport call answers 503,
\* fetch makes exactly maxAttempts calls and returns the retries-exhausted
\* error, not a terminal upstream-status error.
C4_RetryBound ==
    (Returned /\ AllServiceUnavailable) =>
        /\ calls = maxAttempts
        /\ ret.err.kind = "upstream retries exhausted"

\* C5 (not-found short-circuit): once a transport call answers 404, fetch
\* has returned the not-found error with status 404, and no transport call
\* and no backoff sleep follows that attempt.
C5_NotFoundShortCircuit ==
    (outcomes # <<>> /\ Last(outcomes).err = NoErr
        /\ Last(outcomes).status = StatusNotFound) =>
        /\ Returned
        /\ ret = Return(ZeroResponse, StatusNotFound, Err("pokemon not found", 0, ""))
        /\ calls = Len(outcomes)
        /\ sleeps = Len(outcomes) - 1

C5_Witness ==
    /\ pc = "done"
    /\ Len(outcomes) = 1
    /\ outcomes[1].status = StatusNotFound
    /\ calls = 1
    /\ sleeps = 0
    /\ resp.code = StatusNotFound

\* a transport error on attempt 1, then a 200 with a body that decodes
ErrorThenSuccess ==
    /\ Returned
    /\ Len(outcomes) = 2
    /\ outcomes[1].err # NoErr
    /\ outcomes[2].err = NoErr
    /\ outcomes[2].status = StatusOK
    /\ outcomes[2].body \in {"pikachu", "eevee", "empty"}

\* C6 (success after transient failure, as claimed): fetch returns the
\* decoded Result with a nil error and records exactly one retryable-failure
\* count and exactly one success count.
C6_OneFailureOneSuccess ==
    ErrorThenSuccess =>
        /\ ret = Return(Encodes(outcomes[2].body), StatusOK, NilErr)
        /\ Failures = 1
        /\ extCalls["200"] = 1

\* C6 (amended): fetch returns the decoded Result with a nil error and,
\* over the whole call, records exactly one success count and no failure
\* count: the attempt that was retried is not counted.
C6_SuccessAfterTransientFailure ==
    ErrorThenSuccess =>
        /\ ret = Return(Encodes(outcomes[2].body), StatusOK, NilErr)
        /\ Failures = 0
        /\ extCalls["200"] = 1

C6_Witness ==
    /\ ErrorThenSuccess
    /\ outcomes[1].err = "timeout"
    /\ outcomes[2].body = "pikachu"
    /\ ret.data = Pikachu
    /\ sleeps = 1

\* the error fetch returned carries the context's error
CancellationClassified == IsCtxError(ret.err.cause)

\* C7 (cancellation handling, as claimed): when a transport call fails
\* because the context was cancelled or its deadline passed, in Do or while
\* the body of its response is read, fetch returns at once with a
\* cancellation error: no further attempt, no backoff sleep, no
\* upstream-failure count.
C7_CancellationHandling ==
    \A i \in 1..Len(outcomes) :
        (IsCtxError(outcomes[i].err) \/ IsCtxError(outcomes[i].body)) =>
            /\ Returned
            /\ i = Len(outcomes)
            /\ calls = i
            /\ sleeps = i - 1
            /\ CancellationClassified
            /\ Failures = 0

\* C8 (interruptible backoff, as claimed): when the context is cancelled
\* during the backoff sleep, fetch issues no further transport call and
\* returns a cancellation error.
C8_InterruptibleBackoff ==
    cancelledAt.pc = "sleep" =>
        /\ calls = cancelledAt.calls
        /\ Returned => CancellationClassified

\* C9 (backoff shape): for attempts 1..MaxBackoffAttempt and every random
\* byte, the delay is never negative and never above the cap, and while the
\* un-jittered delay is under the cap every delay of the next attempt is at
\* least this one.
C9_BackoffShape ==
    bo # NoBackoff =>
        /\ bo.delay >= 0
        /\ bo.delay <= MaxMs
        /\ Jitter(bo.byte) \in 0..(JitterMod - 1)
        /\ (BaseMs * Pow2(bo.attempt - 1) < MaxMs) =>
               \A b \in Bytes : backoffDelay(bo.attempt + 1, b) >= bo.delay

C9_Witness ==
    /\ bo.attempt = 4
    /\ bo.byte = 0
    /\ bo.delay = 800

\* cache-hit short-circuit for lookups handled one after another: a lookup of
\* k that reads the cache before the entry an earlier lookup stored for k
\* expires (TTL > 0) answers 200 with exactly the stored Result and makes no
\* transport call.
C10_CacheHitShortCircuit ==
    (pc \notin {"idle", "lookup"} /\ ttl > 0 /\ prior.ok /\ readAt < prior.at + ttl) =>
        /\ pc = "done"
        /\ resp = hitResponse(prior.value)
        /\ calls = 0
        /\ ret = NoReturn

C10_Witness ==
    /\ pc = "done"
    /\ ttl > 0
    /\ prior.ok
    /\ prior.value = Pikachu
    /\ readAt < prior.at + ttl
    /\ resp = hitResponse(Pikachu)
    /\ calls = 0

\* C10 (cache-hit short-circuit, as claimed, with requests served
\* concurrently): with TTL > 0, a lookup of k that arrives after another
\* lookup has stored r under k, with no store of k since, and whose cache
\* read is before r's expiry, finds r in the cache, so it answers with r
\* and does not enter fetchPokemon.
C10_CacheHitAnyLaterLookup ==
    \A t \in Threads :
        (ttl > 0 /\ tpc[t] = "got" /\ tclean[t]
            /\ tres[t].at < lastSet[tkey[t]].expiresAt) =>
            tres[t] = [found |-> TRUE, value |-> lastSet[tkey[t]].value, at |-> tres[t].at]

\* the statuses of the model that are neither 200, nor 404, nor >= 500
TerminalStatuses == {204, 429}

\* the counter label the sink is given for a terminal status
TerminalLabel(s) == IF s = 204 THEN "204" ELSE "429"

\* C12 (terminal upstream status): when an attempt is answered with a status
\* that is not 200, not 404 and below 500, fetch has returned without a
\* further attempt or sleep, the failure counter labelled with that status
\* was incremented exactly once and no other counter was, and the returned
\* error is the upstream-status error carrying that status.
C12_TerminalUpstreamStatus ==
    (outcomes # <<>> /\ Last(outcomes).err = NoErr
        /\ Last(outcomes).status \in TerminalStatuses) =>
        /\ Returned
        /\ calls = Len(outcomes)
        /\ sleeps = Len(outcomes) - 1
        /\ extCalls[TerminalLabel(Last(outcomes).status)] = 1
        /\ SumOver(extCalls, Labels) = 1
        /\ ret.data = ZeroResponse
        /\ ret.err = Err("upstream returned status", Last(outcomes).status, "")

C12_Witness ==
    /\ pc = "done"
    /\ Len(outcomes) = 2
    /\ outcomes[1].status = 503
    /\ outcomes[2].err = NoErr
    /\ outcomes[2].status = 429
    /\ extCalls["429"] = 1
    /\ resp.message.code = 429

\* what the body read can give that does not decode into a Result: a body
\* that is not the JSON of a Result, or a read cut short by the context
Undecodable == {"mistyped", "garbage", "canceled", "deadline"}

\* C13 (decode failure is terminal): when an attempt is answered with status
\* 200 and a body that does not decode, fetch has returned without a further
\* attempt or sleep, it returned an error and the zero Result, and what it
\* returned differs from what it returns for every upstream status.
C13_DecodeFailureTerminal ==
    (outcomes # <<>> /\ Last(outcomes).err = NoErr
        /\ Last(outcomes).status = StatusOK
        /\ Last(outcomes).body \in Undecodable) =>
        /\ Returned
        /\ calls = Len(outcomes)
        /\ sleeps = Len(outcomes) - 1
        /\ ret.data = ZeroResponse
        /\ ret.err # NilErr
        /\ \A s \in StatusCodes \ {StatusOK} :
              /\ ret # statusError(s)
              /\ ret.err.kind # statusError(s).err.kind
              /\ pc = "done" => resp # errorResponse(statusError(s))

C13_Witness ==
    /\ pc = "done"
    /\ Len(outcomes) = 1
    /\ outcomes[1].err = NoErr
    /\ outcomes[1].status = StatusOK
    /\ outcomes[1].body = "mistyped"
    /\ ret.err.kind = "failed to parse response"
    /\ resp.code = StatusBadGateway

\* attempt outcomes the loop retries: a status >= 500, or a transport error
\* that net.Error reports as a timeout
RetryableOutcome(o) ==
    \/ o.err = NoErr /\ o.status >= 500
    \/ o.err \in {"timeout", "deadline"}

\* C17 (retry decision): at most maxAttempts attempts are made; attempt n+1
\* has been issued only if attempt n ended in a retryable outcome and
\* n < maxAttempts, and after such an attempt fetch has not returned: it is
\* sleeping, at the loop head or already in attempt n+1; one sleep is taken
\* after every attempt that is followed by another and none after the last,
\* so a returned fetch with a attempts has slept a - 1 times.
C17_RetryDecision ==
    /\ calls <= maxAttempts
    /\ Len(outcomes) \in {calls - 1, calls}
    /\ \A n \in 1..Len(outcomes) :
          /\ calls > n => RetryableOutcome(outcomes[n]) /\ n < maxAttempts
          /\ (RetryableOutcome(outcomes[n]) /\ n < maxAttempts) =>
                (calls > n \/ pc \in {"sleep", "attempt"})
    /\ pc \in {"sleep", "attempt"} => sleeps = calls
    /\ pc \in {"inflight", "decode"} => sleeps = calls - 1
    /\ (Returned /\ calls > 0) => sleeps = calls - 1

C17_Witness ==
    /\ pc = "done"
    /\ Len(outcomes) = maxAttempts
    /\ outcomes[1].err = "timeout"
    /\ outcomes[2].status = 503
    /\ outcomes[3].status = 503
    /\ calls = maxAttempts
    /\ sleeps = maxAttempts - 1

\* fetchPokemon has returned to the handler (a cache hit never calls it)
FetchReturned == pc = "returned" \/ (pc = "done" /\ ret # NoReturn)

\* C18 (per-attempt latency, as claimed): when a fetch has returned, the
\* number of duration observations it recorded equals the number of
\* transport attempts it made.
C18_PerAttemptLatency == FetchReturned => durObs = calls

\* C19 (exactly one outcome count per fetch): while a fetch is running no
\* external-call counter has been incremented, whatever attempts it has
\* already retried, and once it has returned the increments over all labels
\* sum to exactly one.
C19_OneOutcomeCount ==
    /\ pc \in {"lookup", "attempt", "inflight", "decode", "sleep"} =>
          SumOver(extCalls, Labels) = 0
    /\ FetchReturned => SumOver(extCalls, Labels) = 1

C19_Witness ==
    /\ pc = "returned"
    /\ Len(outcomes) = maxAttempts
    /\ \A n \in 1..maxAttempts : outcomes[n].err = "timeout"
    /\ extCalls["error"] = 1
    /\ SumOver(extCalls, Labels \ {"error"}) = 0

\* C20 (result/status/error agreement): a returned fetch has a nil error
\* exactly when its status is 200 and its Result is the decoded body of the
\* last attempt's 200 response; with a non-nil error the Result is the zero
\* value, the status is 404 exactly when the last attempt was answered 404,
\* and 502 otherwise.
C20_ResultStatusErrorAgreement ==
    (FetchReturned /\ outcomes # <<>>) =>
        LET o == Last(outcomes) IN
        /\ ret.err = NilErr <=>
              /\ ret.status = StatusOK
              /\ o.err = NoErr
              /\ o.status = StatusOK
              /\ o.body \notin Undecodable
              /\ ret.data = Encodes(o.body)
        /\ ret.err # NilErr =>
              /\ ret.data = ZeroResponse
              /\ ret.status = StatusNotFound <=> (o.err = NoErr /\ o.status = StatusNotFound)
              /\ ret.status # StatusNotFound => ret.status = StatusBadGateway

C20_Witness ==
    /\ pc = "done"
    /\ Len(outcomes) = 2
    /\ outcomes[1].err = "timeout"
    /\ outcomes[2].status = StatusOK
    /\ outcomes[2].body = "empty"
    /\ ret = Return(ZeroResponse, StatusOK, NilErr)
    /\ resp.code = StatusOK

\* the lookup in hand has ended in an error response
LookupFailed == pc = "done" /\ resp.error # ""

\* every entry of the map is what the last successful lookup of its key
\* stored: the Result decoded from a 200 response, expiring ttl after it
StoredAreDecoded ==
    \A k \in Keys :
        data[k].ok =>
            /\ written[k].ok
            /\ data[k] = cacheEntry(written[k].value, written[k].at + ttl)
            /\ \E b \in Bodies \ Undecodable : data[k].value = Encodes(b)

\* C11 (only successes are cached, as claimed): every stored entry holds a
\* Result decoded from a 200 response, and a lookup that ended in an error
\* has left every entry of the cache as it was when the lookup arrived.
C11_ErrorLeavesCacheUnchanged ==
    /\ StoredAreDecoded
    /\ LookupFailed => data = before

\* C11 (only successes are cached, amended): every stored entry holds a
\* Result decoded from a 200 response; while fetch runs, and after a lookup
\* that ended in an error, no entry has been written: each entry is as it
\* was when the lookup arrived, except that the entry of the looked-up key
\* is gone if it had expired when the lookup read the cache.
C11_OnlySuccessesCached ==
    /\ StoredAreDecoded
    /\ (LookupFailed \/ pc \in {"attempt", "inflight", "decode", "sleep", "returned"}) =>
          /\ written[name] = prior
          /\ \A k \in Keys :
                \/ data[k] = before[k]
                \/ /\ k = name
                   /\ data[k] = Absent
                   /\ before[k].ok
                   /\ readAt > before[k].expiresAt

C11_Witness ==
    /\ LookupFailed
    /\ resp.code = StatusBadGateway
    /\ before[name].ok
    /\ data[name] = Absent
    /\ \E k \in Keys : k # name /\ data[k].ok /\ data[k] = before[k]

\* C14 (lazy eviction keeps live data, as claimed): a get(k) that began after
\* a set(k, v) had completed, during which no other set(k, ..) inserted and
\* whose clock reading is before that entry's expiry, returns (v, true); and
\* a get about to run its delete never finds under k a live entry other than
\* the expired one it read.
C14_LazyEvictionKeepsLiveData ==
    \A t \in Threads :
        /\ (tpc[t] = "got" /\ tclean[t] /\ tres[t].at < lastSet[tkey[t]].expiresAt) =>
              /\ tres[t].found
              /\ tres[t].value = lastSet[tkey[t]].value
        /\ tpc[t] = "delete" =>
              ~ /\ data[tkey[t]].ok
                /\ data[tkey[t]] # tentry[t]
                /\ ~After(now, data[tkey[t]].expiresAt)

\* where a goroutine is right before and right after its read of the map
ReadPcs == {"read", "runlock"}

\* where a goroutine is right before and right after its delete or insert
WritePcs == {"delete", "evict_unlock", "insert", "set_unlock"}

\* C15 (reader/writer exclusion): a goroutine at its map read holds the read
\* lock and one at its insert or delete holds the write lock; while the
\* write lock is held nobody holds the read lock, and a goroutine about to
\* mutate the map is never alongside another about to read or mutate it.
C15_ReaderWriterExclusion ==
    /\ \A t \in Threads :
          /\ tpc[t] \in ReadPcs => t \in readers
          /\ tpc[t] \in WritePcs => writer = t
    /\ writer # NoThread => readers = {}
    /\ \A t, u \in Threads :
          (t # u /\ tpc[t] \in {"delete", "insert"}) =>
              tpc[u] \notin {"read", "delete", "insert"}

\* two reads of the map overlap, after an insert has been made
C15_Witness ==
    /\ readers = Threads
    /\ \A t \in Threads : tpc[t] = "read"
    /\ \E k \in ConcKeys : data[k].ok

\* C16 (no lock across blocking operations): a request inside a transport
\* call or a backoff sleep holds neither lock, and a goroutine holding a
\* lock is at the one map read, insert or delete of its critical section.
C16_NoLockAcrossBlocking ==
    \A t \in Threads :
        /\ tpc[t] \in {"inflight", "sleep"} => (t \notin readers /\ writer # t)
        /\ t \in readers => tpc[t] \in ReadPcs
        /\ writer = t => tpc[t] \in WritePcs

\* one request sleeps in backoff while the other is inside set
C16_Witness ==
    \E t, u \in Threads :
        /\ tpc[t] = "sleep"
        /\ tpc[u] = "insert"
        /\ writer = u
        /\ t \notin readers


====
